---- MODULE Spec2Model ----
(***************************************************************************)
(* Wardrobe application (app.py): the wear-balanced outfit recommendation  *)
(* (get_smart_recommendations_balanced / generate_outfit), the wear        *)
(* tracker (mark_outfit_worn), the history log (outfit_history) and the    *)
(* item handlers that share the store (upload, update_item, delete_item).  *)
(* The SQLite database is the pair of tables clothes and outfit_history;   *)
(* every request opens its own connection.                                 *)
(***************************************************************************)
EXTENDS Integers, Sequences, FiniteSets, TLC

VARIABLES clothes, clothes_seq, outfit_history, files, now, conn, lock, response

vars == <<clothes, clothes_seq, outfit_history, files, now, conn, lock, response>>

(***************************************************************************)
(* Bounds of the model.                                                    *)
(***************************************************************************)
MaxItems == 2
MaxWorn == 1
WearMaxItems == 2
WearMaxWorn == 2
RecMaxItems == 4
RecMaxWorn == 2
ConcMaxItems == 1
ConcMaxWorn == 2
HistMaxWorn == 21
HistMaxOther == 1
DangMaxItems == 2
DangMaxWorn == 1
SlotMaxItems == 2
SlotMaxWorn == 2

(***************************************************************************)
(* Values.                                                                 *)
(***************************************************************************)
\* JSON null / an absent key of the request body (data.get gives None)
Null == -1
\* "user_id" not in session
NoUser == "anonymous"
Users == {"u1", "u2"}
Sessions == Users \cup {NoUser}
Threads == {"t1", "t2"}
NoThread == "none"

\* the images a client uploads; the file name is the image's name
Images == {"tee.jpg", "jeans.jpg", "boots.jpg", "coat.jpg", "heels.jpg"}

\* single_classification(filepath): (subtype, season, occasion) of an image
Classify(img) ==
    CASE img = "tee.jpg"   -> [subtype |-> "top",    season |-> "Summer", occasion |-> "Casual"]
      [] img = "jeans.jpg" -> [subtype |-> "bottom", season |-> "Summer", occasion |-> "Casual"]
      [] img = "boots.jpg" -> [subtype |-> "foot",   season |-> "Summer", occasion |-> "Casual"]
      [] img = "coat.jpg"  -> [subtype |-> "top",    season |-> "Winter", occasion |-> "Casual"]
      [] OTHER             -> [subtype |-> "foot",   season |-> "Summer", occasion |-> "Formal"]

\* os.path.join(BASE_UPLOAD_FOLDER, str(user_id), file_name)
FilePath(user_id, file_name) == <<user_id, file_name>>

\* Python truthiness of a request id: None and 0 are skipped by "if item_id:"
Truthy(item_id) == item_id # Null /\ item_id # 0

(***************************************************************************)
(* The database: two tables. A connection works on a copy (its open        *)
(* transaction) that replaces the committed tables at commit and is        *)
(* dropped when the connection is closed without a commit.                 *)
(***************************************************************************)
EmptyDb == [clothes |-> <<>>, outfit_history |-> <<>>]

Db(cl, oh) == [clothes |-> cl, outfit_history |-> oh]

\* the id of a new clothes row: one more than the last id given, never reused
NextClothesId(seq) == seq + 1

\* INSERT INTO clothes (...) VALUES (?, ?, ?, ?, ?, ?, 0)
InsertClothes(db, id, user_id, file_path, c) ==
    [db EXCEPT !.clothes =
        [i \in DOMAIN db.clothes \cup {id} |->
            IF i = id
            THEN [user_id |-> user_id, file_path |-> file_path,
                  subtype |-> c.subtype, season |-> c.season,
                  occasion |-> c.occasion, wear_count |-> 0]
            ELSE db.clothes[i]]]

\* the UPDATE without "AND user_id = ?"
UpdateWearCountAnyOwner(db, item_id, user_id) ==
    [db EXCEPT !.clothes =
        [i \in DOMAIN db.clothes |->
            IF i = item_id
            THEN [db.clothes[i] EXCEPT !.wear_count = @ + 1]
            ELSE db.clothes[i]]]

\* the UPDATE with a category test: only a top is counted
UpdateWearCountTopsOnly(db, item_id, user_id) ==
    [db EXCEPT !.clothes =
        [i \in DOMAIN db.clothes |->
            IF i = item_id /\ db.clothes[i].user_id = user_id /\ db.clothes[i].subtype = "top"
            THEN [db.clothes[i] EXCEPT !.wear_count = @ + 1]
            ELSE db.clothes[i]]]

\* UPDATE clothes SET wear_count = wear_count + 1 WHERE id = ? AND user_id = ?
UpdateWearCount(db, item_id, user_id) ==
    [db EXCEPT !.clothes =
        [i \in DOMAIN db.clothes |->
            IF i = item_id /\ db.clothes[i].user_id = user_id
            THEN [db.clothes[i] EXCEPT !.wear_count = @ + 1]
            ELSE db.clothes[i]]]

\* an INSERT OR REPLACE keyed on the owner: the owner's record is overwritten
InsertHistoryPerOwner(db, user_id, top_id, bottom_id, shoe_id, t) ==
    [db EXCEPT !.outfit_history =
        IF \E k \in 1..Len(@) : @[k].user_id = user_id
        THEN [k \in 1..Len(@) |->
                IF @[k].user_id = user_id
                THEN [@[k] EXCEPT !.top_id = top_id, !.bottom_id = bottom_id,
                                  !.shoe_id = shoe_id, !.date_worn = t]
                ELSE @[k]]
        ELSE Append(@, [id |-> Len(@) + 1, user_id |-> user_id, top_id |-> top_id,
                        bottom_id |-> bottom_id, shoe_id |-> shoe_id, date_worn |-> t])]

\* INSERT INTO outfit_history (user_id, top_id, bottom_id, shoe_id) VALUES (?, ?, ?, ?)
\* id and date_worn are the table's defaults: the next row id and the current time
InsertHistory(db, user_id, top_id, bottom_id, shoe_id, t) ==
    [db EXCEPT !.outfit_history =
        Append(@, [id |-> Len(@) + 1, user_id |-> user_id, top_id |-> top_id,
                   bottom_id |-> bottom_id, shoe_id |-> shoe_id, date_worn |-> t])]

\* an UPDATE that rewrites the whole row from the edit form
UpdateTagsResetsWear(db, user_id, file_path, season, occasion) ==
    [db EXCEPT !.clothes =
        [i \in DOMAIN db.clothes |->
            IF db.clothes[i].user_id = user_id /\ db.clothes[i].file_path = file_path
            THEN [db.clothes[i] EXCEPT !.season = season, !.occasion = occasion,
                                       !.wear_count = 0]
            ELSE db.clothes[i]]]

\* an UPDATE keyed on the file name alone, whoever owns the row
UpdateTagsByFileName(db, user_id, file_path, season, occasion) ==
    [db EXCEPT !.clothes =
        [i \in DOMAIN db.clothes |->
            IF db.clothes[i].file_path[2] = file_path[2]
            THEN [db.clothes[i] EXCEPT !.season = season, !.occasion = occasion]
            ELSE db.clothes[i]]]

\* UPDATE clothes SET season = ?, occasion = ? WHERE user_id = ? AND file_path = ?
UpdateTags(db, user_id, file_path, season, occasion) ==
    [db EXCEPT !.clothes =
        [i \in DOMAIN db.clothes |->
            IF db.clothes[i].user_id = user_id /\ db.clothes[i].file_path = file_path
            THEN [db.clothes[i] EXCEPT !.season = season, !.occasion = occasion]
            ELSE db.clothes[i]]]

\* a DELETE that cascades to the history records naming a deleted item
DeleteClothesCascade(db, user_id, file_path) ==
    LET gone == {j \in DOMAIN db.clothes :
                    db.clothes[j].user_id = user_id /\ db.clothes[j].file_path = file_path}
    IN  [clothes |-> [i \in DOMAIN db.clothes \ gone |-> db.clothes[i]],
         outfit_history |->
             SelectSeq(db.outfit_history,
                       LAMBDA h : {h.top_id, h.bottom_id, h.shoe_id} \cap gone = {})]

\* DELETE FROM clothes WHERE user_id=? AND file_path=?
DeleteClothes(db, user_id, file_path) ==
    [db EXCEPT !.clothes =
        [i \in {j \in DOMAIN db.clothes :
                    ~(db.clothes[j].user_id = user_id /\ db.clothes[j].file_path = file_path)}
            |-> db.clothes[i]]]

\* conn.commit(): the connection's transaction becomes the committed database
Commit(committed, tx) == tx

\* a connection that writes every statement through (autocommit)
CloseKeepsWrites(committed, tx) == tx

\* conn.close() with no commit: the open transaction is rolled back
CloseUncommitted(committed, tx) == committed

(***************************************************************************)
(* Responses. One record shape for every handler; a handler fills the      *)
(* fields its response has.                                                *)
(***************************************************************************)
Resp(op, user, status, ok) ==
    [op |-> op, user |-> user, status |-> status, ok |-> ok,
     season |-> "", occasion |-> "",
     missing |-> <<>>, outfit |-> <<>>, rows |-> <<>>]

\* the default of outfit_history.date_worn: the time of the INSERT
CurrentTimestamp == now

IdleConn == [pc |-> 0, user |-> NoUser, ids |-> <<Null, Null, Null>>, open |-> FALSE, tx |-> EmptyDb]

Init ==
    /\ clothes = <<>>
    /\ clothes_seq = 0
    /\ outfit_history = <<>>
    /\ files = {}
    /\ now = 0
    /\ conn = [t \in Threads |-> IdleConn]
    /\ lock = NoThread
    /\ response = Resp("none", NoUser, 0, TRUE)

(***************************************************************************)
(* upload                                                                  *)
(***************************************************************************)
\* session.get("user_id", "guest")
UploadOwner(s) == IF s = NoUser THEN "guest" ELSE s

Upload(s, img, cap) ==
    LET user_id == UploadOwner(s)
        filepath == FilePath(user_id, img)
    IN  /\ lock = NoThread
        /\ clothes_seq < cap
        /\ LET db == Commit(Db(clothes, outfit_history),
                            InsertClothes(Db(clothes, outfit_history),
                                          NextClothesId(clothes_seq),
                                          user_id, filepath, Classify(img)))
           IN  /\ clothes' = db.clothes
               /\ outfit_history' = db.outfit_history
        /\ clothes_seq' = NextClothesId(clothes_seq)
        /\ files' = files \cup {filepath}
        /\ response' = [Resp("upload", s, 200, TRUE) EXCEPT
                            !.season = Classify(img).season,
                            !.occasion = Classify(img).occasion]
        /\ UNCHANGED <<now, conn, lock>>

(***************************************************************************)
(* get_smart_recommendations_balanced / generate_outfit                    *)
(***************************************************************************)
\* SELECT * FROM clothes WHERE user_id = ? AND subtype = ? AND season = ? AND occasion = ?
SelectClothes(cl, user_id, subtype, season, occasion) ==
    {i \in DOMAIN cl : /\ cl[i].user_id = user_id
                       /\ cl[i].subtype = subtype
                       /\ cl[i].season = season
                       /\ cl[i].occasion = occasion}

\* the orders in which the rows S can be listed
Listings(S) ==
    {f \in [1..Cardinality(S) -> S] : \A a, b \in 1..Cardinality(S) : a # b => f[a] # f[b]}

\* the query without its ORDER BY
Unordered(cl, S) == Listings(S)

\* ORDER BY wear_count DESC: the most worn first
OrderByWearDesc(cl, S) ==
    {f \in Listings(S) :
        \A a, b \in 1..Cardinality(S) : a < b => cl[f[a]].wear_count >= cl[f[b]].wear_count}

\* ORDER BY wear_count ASC ... fetchall(): the order of rows with equal
\* wear_count is whatever the storage gives
OrderByWearAsc(cl, S) ==
    {f \in Listings(S) :
        \A a, b \in 1..Cardinality(S) : a < b => cl[f[a]].wear_count <= cl[f[b]].wear_count}

\* dict(row) of a clothes row
ClothesRow(cl, i) ==
    [id |-> i, user_id |-> cl[i].user_id, file_path |-> cl[i].file_path,
     subtype |-> cl[i].subtype, season |-> cl[i].season,
     occasion |-> cl[i].occasion, wear_count |-> cl[i].wear_count]

\* the three tests chained with elif: only the first empty list is named
MissingNamesFirstOnly(tops, bottoms, shoes) ==
    IF tops = <<>> THEN <<"tops">>
    ELSE IF bottoms = <<>> THEN <<"bottoms">>
    ELSE IF shoes = <<>> THEN <<"shoes">> ELSE <<>>

\* the names appended to missing, in the order of the three tests
MissingNames(tops, bottoms, shoes) ==
    (IF tops = <<>> THEN <<"tops">> ELSE <<>>)
    \o (IF bottoms = <<>> THEN <<"bottoms">> ELSE <<>>)
    \o (IF shoes = <<>> THEN <<"shoes">> ELSE <<>>)

\* what get_smart_recommendations_balanced returns for the three fetched lists
Recommendation(cl, tops, bottoms, shoes) ==
    IF tops = <<>> \/ bottoms = <<>> \/ shoes = <<>>
    THEN [success |-> FALSE, missing |-> MissingNames(tops, bottoms, shoes),
          outfit |-> <<>>]
    ELSE [success |-> TRUE, missing |-> <<>>,
          outfit |-> <<ClothesRow(cl, tops[1]), ClothesRow(cl, bottoms[1]),
                       ClothesRow(cl, shoes[1])>>]

\* the results get_smart_recommendations_balanced can return
GetSmartRecommendationsBalanced(cl, user_id, season, occasion) ==
    {Recommendation(cl, tops, bottoms, shoes) :
        tops \in OrderByWearAsc(cl, SelectClothes(cl, user_id, "top", season, occasion)),
        bottoms \in OrderByWearAsc(cl, SelectClothes(cl, user_id, "bottom", season, occasion)),
        shoes \in OrderByWearAsc(cl, SelectClothes(cl, user_id, "foot", season, occasion))}

\* request.form.get(key, default)
FormGet(v, default) == IF v = "" THEN default ELSE v

\* a recommendation that counts the outfit it shows as worn
GenerateOutfitCountsWear(s, form_season, form_occasion) ==
    LET season == FormGet(form_season, "Summer")
        occasion == FormGet(form_occasion, "Casual")
    IN  /\ s # NoUser
        /\ \E result \in GetSmartRecommendationsBalanced(clothes, s, season, occasion) :
              /\ response' = [Resp("generate_outfit", s,
                                   IF result.success THEN 200 ELSE 404, result.success)
                                EXCEPT !.season = season, !.occasion = occasion,
                                       !.missing = result.missing,
                                       !.outfit = result.outfit]
              /\ clothes' = [i \in DOMAIN clothes |->
                                IF \E k \in 1..Len(result.outfit) : result.outfit[k].id = i
                                THEN [clothes[i] EXCEPT !.wear_count = @ + 1]
                                ELSE clothes[i]]
        /\ UNCHANGED <<clothes_seq, outfit_history, files, now, conn, lock>>

GenerateOutfit(s, form_season, form_occasion) ==
    LET season == FormGet(form_season, "Summer")
        occasion == FormGet(form_occasion, "Casual")
    IN  /\ IF s = NoUser
           THEN response' = Resp("generate_outfit", s, 401, FALSE)
           ELSE \E result \in GetSmartRecommendationsBalanced(clothes, s, season, occasion) :
                   response' = [Resp("generate_outfit", s,
                                     IF result.success THEN 200 ELSE 404, result.success)
                                  EXCEPT !.season = season, !.occasion = occasion,
                                         !.missing = result.missing,
                                         !.outfit = result.outfit]
        /\ UNCHANGED <<clothes, clothes_seq, outfit_history, files, now, conn, lock>>

(***************************************************************************)
(* mark_outfit_worn                                                        *)
(***************************************************************************)
\* the statements the try block executes, in order: one UPDATE for every
\* truthy id of [top_id, bottom_id, shoe_id], then the INSERT
MarkStatements(ids) ==
    LET upd(k) == IF Truthy(ids[k])
                  THEN <<[kind |-> "update", item_id |-> ids[k]]>>
                  ELSE <<>>
    IN  upd(1) \o upd(2) \o upd(3) \o <<[kind |-> "insert", item_id |-> Null]>>

ExecStatement(db, st, user_id, ids, t) ==
    IF st.kind = "update"
    THEN UpdateWearCount(db, st.item_id, user_id)
    ELSE InsertHistory(db, user_id, ids[1], ids[2], ids[3], t)

\* the transaction after the first n statements
RECURSIVE ExecPrefix(_, _, _, _, _, _)
ExecPrefix(db, stmts, n, user_id, ids, t) ==
    IF n = 0 THEN db
    ELSE ExecStatement(ExecPrefix(db, stmts, n - 1, user_id, ids, t),
                       stmts[n], user_id, ids, t)

\* the handler without its session check: the statements run for any caller
MarkOutfitWornNoSessionCheck(s, ids, failAt) ==
    LET stmts == MarkStatements(ids)
        committed == Db(clothes, outfit_history)
        done == IF failAt = 0 THEN Len(stmts) ELSE failAt - 1
        tx == ExecPrefix(committed, stmts, done, s, ids, CurrentTimestamp)
        db == IF failAt = 0 THEN Commit(committed, tx)
                            ELSE CloseUncommitted(committed, tx)
    IN  /\ lock = NoThread
        /\ failAt <= Len(stmts) + 1
        /\ response' = Resp("mark_outfit_worn", s, 200, failAt = 0)
        /\ clothes' = db.clothes
        /\ outfit_history' = db.outfit_history
        /\ UNCHANGED <<clothes_seq, files, now, conn, lock>>

\* The whole handler, run with no other connection writing. failAt = 0: no
\* statement raises; failAt = k: the k-th statement raises; failAt =
\* Len(stmts) + 1: conn.commit() raises.
MarkOutfitWorn(s, ids, failAt) ==
    LET stmts == MarkStatements(ids)
        committed == Db(clothes, outfit_history)
        done == IF failAt = 0 THEN Len(stmts) ELSE failAt - 1
        tx == ExecPrefix(committed, stmts, done, s, ids, CurrentTimestamp)
        db == IF failAt = 0 THEN Commit(committed, tx)
                            ELSE CloseUncommitted(committed, tx)
    IN  /\ lock = NoThread
        /\ failAt <= Len(stmts) + 1
        /\ IF s = NoUser
           THEN /\ failAt = 0
                /\ response' = Resp("mark_outfit_worn", s, 401, FALSE)
                /\ UNCHANGED <<clothes, outfit_history>>
           ELSE /\ response' = Resp("mark_outfit_worn", s, 200, failAt = 0)
                /\ clothes' = db.clothes
                /\ outfit_history' = db.outfit_history
        /\ UNCHANGED <<clothes_seq, files, now, conn, lock>>

(***************************************************************************)
(* update_item, delete_item                                                *)
(***************************************************************************)
UpdateItem(s, file_name, new_season, new_occasion, fails) ==
    LET file_path == FilePath(s, file_name)
        committed == Db(clothes, outfit_history)
        tx == UpdateTags(committed, s, file_path, new_season, new_occasion)
        db == IF fails THEN CloseUncommitted(committed, tx) ELSE Commit(committed, tx)
    IN  /\ lock = NoThread
        /\ IF s = NoUser
           THEN /\ ~fails
                /\ response' = Resp("update_item", s, 200, FALSE)
                /\ UNCHANGED <<clothes, outfit_history>>
           ELSE /\ clothes' = db.clothes
                /\ outfit_history' = db.outfit_history
                /\ response' = [Resp("update_item", s, 200, ~fails)
                                  EXCEPT !.season = new_season, !.occasion = new_occasion]
        /\ UNCHANGED <<clothes_seq, files, now, conn, lock>>

DeleteItem(s, file_name) ==
    LET file_path == FilePath(s, file_name)
        committed == Db(clothes, outfit_history)
        db == Commit(committed, DeleteClothes(committed, s, file_path))
    IN  /\ lock = NoThread
        /\ IF s # NoUser /\ file_path \in files
           THEN /\ files' = files \ {file_path}
                /\ clothes' = db.clothes
                /\ outfit_history' = db.outfit_history
                /\ response' = Resp("delete_item", s, 200, TRUE)
           ELSE /\ response' = Resp("delete_item", s, 200, FALSE)
                /\ UNCHANGED <<clothes, outfit_history, files>>
        /\ UNCHANGED <<clothes_seq, now, conn, lock>>

(***************************************************************************)
(* outfit_history                                                          *)
(***************************************************************************)
\* LIMIT 20
HistoryLimit == 20

\* no row joined: the path column is NULL
NoPath == <<>>

\* LEFT JOIN clothes c ON oh.<slot>_id = c.id: c.file_path, or NULL
JoinPath(cl, item_id) == IF item_id \in DOMAIN cl THEN cl[item_id].file_path ELSE NoPath

\* one row of the SELECT: oh.* and the three joined paths
HistoryRow(cl, h) ==
    [id |-> h.id, user_id |-> h.user_id, top_id |-> h.top_id,
     bottom_id |-> h.bottom_id, shoe_id |-> h.shoe_id, date_worn |-> h.date_worn,
     top_path |-> JoinPath(cl, h.top_id),
     bottom_path |-> JoinPath(cl, h.bottom_id),
     shoe_path |-> JoinPath(cl, h.shoe_id)]

\* WHERE oh.user_id = ?: the positions of the user's records
SelectHistory(oh, user_id) == {k \in 1..Len(oh) : oh[k].user_id = user_id}

\* ORDER BY oh.date_worn ASC
RECURSIVE OrderByDateAsc(_, _)
OrderByDateAsc(oh, K) ==
    IF K = {} THEN {<<>>}
    ELSE UNION {{<<k>> \o rest : rest \in OrderByDateAsc(oh, K \ {k})} :
                    k \in {j \in K : \A m \in K : oh[j].date_worn <= oh[m].date_worn}}

\* ORDER BY oh.date_worn DESC: the listings of the records K, latest first;
\* records of the same date_worn come in whatever order the storage gives
RECURSIVE OrderByDateDesc(_, _)
OrderByDateDesc(oh, K) ==
    IF K = {} THEN {<<>>}
    ELSE UNION {{<<k>> \o rest : rest \in OrderByDateDesc(oh, K \ {k})} :
                    k \in {j \in K : \A m \in K : oh[m].date_worn <= oh[j].date_worn}}

\* LIMIT n
Limit(rows, n) == SubSeq(rows, 1, IF Len(rows) < n THEN Len(rows) ELSE n)

\* the row lists the query of outfit_history can return
HistoryQuery(cl, oh, user_id) ==
    {[k \in 1..Len(Limit(order, HistoryLimit)) |-> HistoryRow(cl, oh[order[k]])] :
        order \in OrderByDateDesc(oh, SelectHistory(oh, user_id))}

\* limit: a limit argument of the request (Null: none); the handler reads none
OutfitHistory(s, limit) ==
    /\ IF s = NoUser
       THEN response' = Resp("outfit_history", s, 302, FALSE)
       ELSE \E rows \in HistoryQuery(clothes, outfit_history, s) :
               response' = [Resp("outfit_history", s, 200, TRUE) EXCEPT !.rows = rows]
    /\ UNCHANGED <<clothes, clothes_seq, outfit_history, files, now, conn, lock>>

(***************************************************************************)
(* Time passes: CURRENT_TIMESTAMP advances.                                *)
(***************************************************************************)
Tick(cap) ==
    /\ now < cap
    /\ now' = now + 1
    /\ UNCHANGED <<clothes, clothes_seq, outfit_history, files, conn, lock, response>>

(***************************************************************************)
(* Spec: every handler, each request run to completion before the next.    *)
(***************************************************************************)
IdInputs(cap) == {Null} \cup 1..cap

MainImages == {"tee.jpg"}

MainOutfits == {<<t, Null, t>> : t \in {Null} \cup 1..MaxItems}

Next ==
    \/ \E s \in Users, img \in MainImages : Upload(s, img, MaxItems)
    \/ \E s \in {"u1", NoUser} : GenerateOutfit(s, "", "")
    \/ \E s \in Sessions, ids \in MainOutfits, failAt \in 0..4 :
          /\ Len(outfit_history) < MaxWorn
          /\ MarkOutfitWorn(s, ids, failAt)
    \/ \E s \in Sessions, f \in MainImages, fails \in BOOLEAN :
          UpdateItem(s, f, "Winter", "Formal", fails)
    \/ \E s \in Sessions, f \in MainImages : DeleteItem(s, f)
    \/ \E s \in {"u1", NoUser} : OutfitHistory(s, Null)

Spec == Init /\ [][Next]_vars

\* C10: every wear_count is an integer >= 0, a new item starts at 0, and the
\* wear_count of an item that stays in the table never goes down; it changes
\* only in a mark_outfit_worn step.
C10_WearCountMonotone ==
    [][\A i \in DOMAIN clothes' :
          /\ clothes'[i].wear_count \in Nat
          /\ i \notin DOMAIN clothes =>
                /\ clothes'[i].wear_count = 0
                /\ response'.op = "upload"
          /\ i \in DOMAIN clothes =>
                /\ clothes'[i].wear_count >= clothes[i].wear_count
                /\ clothes'[i].wear_count # clothes[i].wear_count =>
                      /\ response'.op = "mark_outfit_worn"
                      /\ response'.ok]_vars

\* an item that was worn and then edited, still holding its count, beside a
\* deleted one
C10_Witness ==
    /\ \E i \in DOMAIN clothes :
          /\ clothes[i].wear_count >= 1
          /\ clothes[i].season = "Winter"
          /\ clothes[i].occasion = "Formal"
    /\ Cardinality(DOMAIN clothes) < clothes_seq
    /\ response.op = "update_item" /\ response.ok

\* the paths a history row shows
RowPaths(row) == {row.top_path, row.bottom_path, row.shoe_path} \ {NoPath}

\* the owner of the item stored at a path
PathOwner(path) == path[1]

\* C11: what generate_outfit and outfit_history answer to a user holds no
\* attribute of another user's item: every outfit row is the caller's, and
\* every path of a history row is the path of an item of the caller.
C11_NoCrossUserVisibility ==
    /\ (response.op = "generate_outfit" /\ response.ok) =>
          \A k \in 1..Len(response.outfit) : response.outfit[k].user_id = response.user
    /\ response.op = "outfit_history" =>
          \A k \in 1..Len(response.rows) :
              \A path \in RowPaths(response.rows[k]) : PathOwner(path) = response.user

\* C12: generate_outfit, mark_outfit_worn and outfit_history called with no
\* user_id in the session answer with an error, hold no item and no record in
\* the answer, and leave the tables and the files as they were.
C12_NoOwnerNoWork ==
    [][(response'.user = NoUser
            /\ response'.op \in {"generate_outfit", "mark_outfit_worn", "outfit_history"}) =>
          /\ ~response'.ok
          /\ response'.status \in {401, 302}
          /\ response'.outfit = <<>> /\ response'.rows = <<>>
          /\ clothes' = clothes
          /\ clothes_seq' = clothes_seq
          /\ outfit_history' = outfit_history
          /\ files' = files]_vars

\* a rejected generate_outfit on a store that holds worn items and a record
C12_Witness ==
    /\ response.op = "generate_outfit" /\ response.user = NoUser
    /\ response.status = 401
    /\ outfit_history # <<>>
    /\ \E i \in DOMAIN clothes : clothes[i].wear_count > 0

\* C15: a mark_outfit_worn step changes no field of an item but wear_count; an
\* update_item step changes only season and occasion, and only of items of
\* the caller; no other step changes an item; so the owner, the category and
\* the path of an item stay as they were while the item is in the table.
C15_ItemFrame ==
    [][\A i \in DOMAIN clothes \cap DOMAIN clothes' :
          /\ clothes'[i].user_id = clothes[i].user_id
          /\ clothes'[i].subtype = clothes[i].subtype
          /\ clothes'[i].file_path = clothes[i].file_path
          /\ response'.op = "mark_outfit_worn" =>
                clothes'[i] = [clothes[i] EXCEPT !.wear_count = clothes'[i].wear_count]
          /\ response'.op = "update_item" =>
                /\ clothes'[i] = [clothes[i] EXCEPT !.season = clothes'[i].season,
                                                    !.occasion = clothes'[i].occasion]
                /\ clothes[i].user_id # response'.user => clothes'[i] = clothes[i]
          /\ response'.op \notin {"mark_outfit_worn", "update_item"} =>
                clothes'[i] = clothes[i]]_vars

\* u1 edited its worn item while u2 holds an item of the same file name that
\* still has the classifier's tags
C15_Witness ==
    /\ response.op = "update_item" /\ response.ok /\ response.user = "u1"
    /\ \E i, j \in DOMAIN clothes :
          /\ clothes[i].user_id = "u1" /\ clothes[i].season = "Winter"
          /\ clothes[i].wear_count > 0
          /\ clothes[j].user_id = "u2" /\ clothes[j].season = "Summer"
          /\ clothes[i].file_path[2] = clothes[j].file_path[2]

(***************************************************************************)
(* SpecWear: the wear tracker on a wardrobe of two owners. Every           *)
(* combination of the three ids of the request body, and every point at    *)
(* which the store can fail.                                               *)
(***************************************************************************)
WearIds == IdInputs(WearMaxItems) \X IdInputs(WearMaxItems) \X IdInputs(WearMaxItems)

\* the first confirmation names any three ids
FirstWear ==
    \E s \in {"u1", NoUser}, ids \in WearIds :
        \E failAt \in 0..(Len(MarkStatements(ids)) + 1) :
            /\ outfit_history = <<>>
            /\ MarkOutfitWorn(s, ids, failAt)

\* the outfit of the last record is confirmed again
WearAgain ==
    /\ outfit_history # <<>>
    /\ Len(outfit_history) < WearMaxWorn
    /\ LET h == outfit_history[Len(outfit_history)]
           ids == <<h.top_id, h.bottom_id, h.shoe_id>>
       IN  \E failAt \in 0..(Len(MarkStatements(ids)) + 1) :
               MarkOutfitWorn(h.user_id, ids, failAt)

NextWear ==
    \/ \E s \in Users : Upload(s, "tee.jpg", WearMaxItems)
    \/ FirstWear
    \/ WearAgain

SpecWear == Init /\ [][NextWear]_vars

\* the request names item i in one of its three slots
Names(ids, i) == \E k \in 1..3 : ids[k] = i

\* C2: a successful mark_outfit_worn call adds exactly 1 to the wear_count of
\* every item of the caller that it names, in however many slots, and leaves
\* every other wear_count as it was.
C2_ExactlyOnePerCall ==
    [][\A s \in Users, ids \in WearIds :
          MarkOutfitWorn(s, ids, 0) =>
              /\ DOMAIN clothes' = DOMAIN clothes
              /\ \A i \in DOMAIN clothes :
                    clothes'[i].wear_count =
                        clothes[i].wear_count
                        + (IF Names(ids, i) /\ clothes[i].user_id = s THEN 1 ELSE 0)]_vars

\* C3: a mark_outfit_worn call in which a statement or the commit raises
\* leaves both tables as they were before the call and answers success: False
\* (every step either has that outcome or is no such call).
C3_AllOrNothing ==
    [][\/ /\ clothes' = clothes
          /\ outfit_history' = outfit_history
          /\ response'.op = "mark_outfit_worn"
          /\ response'.ok = FALSE
       \/ ~ \E s \in Users, ids \in WearIds, failAt \in 1..5 :
                MarkOutfitWorn(s, ids, failAt)]_vars

\* a failed call by the owner of a worn item: the table holds an item of u1
\* that an earlier call incremented, and the last call returned the error
C3_Witness ==
    /\ response.op = "mark_outfit_worn"
    /\ response.user = "u1"
    /\ response.status = 200
    /\ ~response.ok
    /\ outfit_history # <<>>
    /\ \E i \in DOMAIN clothes : clothes[i].user_id = "u1" /\ clothes[i].wear_count > 0
    /\ \E j \in DOMAIN clothes : clothes[j].user_id = "u2"

\* the ids of the claim: absent/null, an item of the caller, an item of another owner
C6_Ids(cl) == {ids \in WearIds : \A k \in 1..3 : ids[k] = Null \/ ids[k] \in DOMAIN cl}

\* C6: a call by owner s whose ids are each null, an item of s or an item of
\* another owner succeeds, increments exactly the items of s it names, changes
\* no field of any other item, and appends one record of s holding the three
\* ids as given.
C6_PartialTolerance ==
    [][\A s \in Users : \A ids \in C6_Ids(clothes) :
          MarkOutfitWorn(s, ids, 0) =>
              /\ response'.ok /\ response'.status = 200
              /\ DOMAIN clothes' = DOMAIN clothes
              /\ \A i \in DOMAIN clothes :
                    IF Names(ids, i) /\ clothes[i].user_id = s
                    THEN /\ clothes'[i].wear_count > clothes[i].wear_count
                         /\ clothes'[i] = [clothes[i] EXCEPT !.wear_count = clothes'[i].wear_count]
                    ELSE clothes'[i] = clothes[i]
              /\ Len(outfit_history') = Len(outfit_history) + 1
              /\ SubSeq(outfit_history', 1, Len(outfit_history)) = outfit_history
              /\ LET h == outfit_history'[Len(outfit_history')]
                 IN  /\ h.user_id = s
                     /\ <<h.top_id, h.bottom_id, h.shoe_id>> = ids]_vars

\* the case of P4: u1 confirmed its own top, no bottom, and a shoe of u2
C6_Witness ==
    /\ response.op = "mark_outfit_worn" /\ response.ok /\ response.user = "u1"
    /\ outfit_history # <<>>
    /\ LET h == outfit_history[Len(outfit_history)]
       IN  /\ h.user_id = "u1"
           /\ h.bottom_id = Null
           /\ h.top_id \in DOMAIN clothes /\ h.shoe_id \in DOMAIN clothes
           /\ clothes[h.top_id].user_id = "u1" /\ clothes[h.top_id].wear_count = 1
           /\ clothes[h.shoe_id].user_id = "u2" /\ clothes[h.shoe_id].wear_count = 0

(***************************************************************************)
(* SpecRec: recommendation on wardrobes of up to RecMaxItems items, the    *)
(* wear counts moved by confirming the outfit that was recommended.        *)
(***************************************************************************)
RecUploads == ({"u1"} \X Images) \cup {<<"u2", "tee.jpg">>}

RecFilters == {<<"", "">>, <<"Winter", "">>, <<"", "Formal">>}

\* the client confirms the outfit the last response showed
ConfirmRecommended ==
    /\ response.op = "generate_outfit"
    /\ response.ok
    /\ Len(outfit_history) < RecMaxWorn
    /\ MarkOutfitWorn(response.user,
                      <<response.outfit[1].id, response.outfit[2].id, response.outfit[3].id>>,
                      0)

NextRec ==
    \/ \E u \in RecUploads : Upload(u[1], u[2], RecMaxItems)
    \/ \E s \in Sessions, f \in RecFilters : GenerateOutfit(s, f[1], f[2])
    \/ ConfirmRecommended

SpecRec == Init /\ [][NextRec]_vars

\* the owner's items of a category that match season and occasion exactly
Candidates(owner, category, season, occasion) ==
    {i \in DOMAIN clothes : /\ clothes[i].user_id = owner
                            /\ clothes[i].subtype = category
                            /\ clothes[i].season = season
                            /\ clothes[i].occasion = occasion}

SlotCategory == <<"top", "bottom", "foot">>

SlotName == <<"tops", "bottoms", "shoes">>

\* C1: when every category has a matching item of the owner, the response
\* holds one item per slot; each is the owner's, of the slot's category,
\* matches season and occasion, and carries the least wear_count of the
\* owner's matching items of that category.
C1_LeastWornPerCategory ==
    (response.op = "generate_outfit" /\ response.user \in Users) =>
        LET M(k) == Candidates(response.user, SlotCategory[k],
                               response.season, response.occasion)
        IN  (\A k \in 1..3 : M(k) # {}) =>
                /\ response.ok
                /\ Len(response.outfit) = 3
                /\ \A k \in 1..3 :
                      LET row == response.outfit[k]
                      IN  /\ row.id \in M(k)
                          /\ row.user_id = response.user
                          /\ row.subtype = SlotCategory[k]
                          /\ row.season = response.season
                          /\ row.occasion = response.occasion
                          /\ row.wear_count = clothes[row.id].wear_count
                          /\ \A i \in M(k) : row.wear_count <= clothes[i].wear_count

\* a recommendation that had to choose: two matching tops of the owner with
\* different wear counts, the response holding the less worn one
C1_Witness ==
    /\ response.op = "generate_outfit" /\ response.ok /\ response.user = "u1"
    /\ \E i, j \in Candidates("u1", "top", response.season, response.occasion) :
          clothes[i].wear_count < clothes[j].wear_count
    /\ \E j \in Candidates("u1", "top", response.season, response.occasion) :
          response.outfit[1].wear_count < clothes[j].wear_count

\* C4: a generate_outfit request, answered with an outfit or with an error,
\* leaves the clothes table, the history table and the files as they were.
C4_RecommendReadOnly ==
    [][response'.op = "generate_outfit" =>
          /\ clothes' = clothes
          /\ clothes_seq' = clothes_seq
          /\ outfit_history' = outfit_history
          /\ files' = files]_vars

\* a successful recommendation over items that have been worn
C4_Witness ==
    /\ response.op = "generate_outfit" /\ response.ok
    /\ outfit_history # <<>>
    /\ \E i \in DOMAIN clothes : clothes[i].wear_count > 0

\* C5: the request fails exactly when some category has no matching item of
\* the owner, and the names in the message are exactly those categories.
C5_MissingExactly ==
    (response.op = "generate_outfit" /\ response.user \in Users) =>
        LET empty == {k \in 1..3 : Candidates(response.user, SlotCategory[k],
                                              response.season, response.occasion) = {}}
        IN  /\ ~response.ok <=> empty # {}
            /\ ~response.ok => response.status = 404
            /\ {response.missing[n] : n \in 1..Len(response.missing)}
                   = {SlotName[k] : k \in empty}
            /\ Len(response.missing) = Cardinality(empty)

\* the response that names exactly the categories K as missing, while the
\* owner has items in the table
C5_Case(K) ==
    /\ response.op = "generate_outfit" /\ response.user = "u1" /\ ~response.ok
    /\ {response.missing[n] : n \in 1..Len(response.missing)} = {SlotName[k] : k \in K}
    /\ \E i \in DOMAIN clothes : clothes[i].user_id = "u1"

\* the case of P5: tops and shoes match, no bottom does
C5_Witness == C5_Case({2})

\* the largest minus the smallest wear_count among the items M
WearSpread(cl, M) ==
    IF M = {} THEN 0
    ELSE (CHOOSE x \in {cl[i].wear_count : i \in M} : \A i \in M : cl[i].wear_count <= x)
         - (CHOOSE n \in {cl[i].wear_count : i \in M} : \A i \in M : n <= cl[i].wear_count)

\* the matching items of slot k for the recommendation last answered
CycleCandidates(k) ==
    Candidates(response.user, SlotCategory[k], response.season, response.occasion)

Max(a, b) == IF a < b THEN b ELSE a

CanWrite(l, t) == l \in {NoThread, t}

\* the request reaches the handler: the session check and the body's ids
BeginMark(t, s, ids) ==
    /\ conn[t].pc = 0
    /\ IF s = NoUser
       THEN /\ response' = Resp("mark_outfit_worn", s, 401, FALSE)
            /\ UNCHANGED conn
       ELSE /\ conn' = [conn EXCEPT ![t] = [pc |-> 1, user |-> s, ids |-> ids,
                                            open |-> FALSE, tx |-> EmptyDb]]
            /\ UNCHANGED response
    /\ UNCHANGED <<clothes, clothes_seq, outfit_history, files, now, lock>>

\* the next statement of the try block: an UPDATE or the INSERT
MarkStep(t) ==
    LET c == conn[t]
        stmts == MarkStatements(c.ids)
        base == IF c.open THEN c.tx ELSE Db(clothes, outfit_history)
    IN  /\ c.pc \in 1..Len(stmts)
        /\ CanWrite(lock, t)
        /\ lock' = t
        /\ conn' = [conn EXCEPT ![t] =
                        [c EXCEPT !.pc = @ + 1, !.open = TRUE,
                                  !.tx = ExecStatement(base, stmts[c.pc], c.user, c.ids,
                                                      CurrentTimestamp)]]
        /\ UNCHANGED <<clothes, clothes_seq, outfit_history, files, now, response>>

\* conn.commit(); conn.close(); the success response
MarkCommit(t) ==
    LET c == conn[t]
        db == Commit(Db(clothes, outfit_history), c.tx)
    IN  /\ c.pc = Len(MarkStatements(c.ids)) + 1
        /\ clothes' = db.clothes
        /\ outfit_history' = db.outfit_history
        /\ lock' = IF lock = t THEN NoThread ELSE lock
        /\ conn' = [conn EXCEPT ![t] = IdleConn]
        /\ response' = Resp("mark_outfit_worn", c.user, 200, TRUE)
        /\ UNCHANGED <<clothes_seq, files, now>>

\* the statement or the commit the connection is at raises (the store fails,
\* or the wait for the lock times out): except: conn.close(), success: False
MarkFail(t) ==
    LET c == conn[t]
        db == CloseUncommitted(Db(clothes, outfit_history), c.tx)
    IN  /\ c.pc \in 1..(Len(MarkStatements(c.ids)) + 1)
        /\ clothes' = db.clothes
        /\ outfit_history' = db.outfit_history
        /\ lock' = IF lock = t THEN NoThread ELSE lock
        /\ conn' = [conn EXCEPT ![t] = IdleConn]
        /\ response' = Resp("mark_outfit_worn", c.user, 200, FALSE)
        /\ UNCHANGED <<clothes_seq, files, now>>

ConcOutfits == {<<t, b, Null>> : t \in 1..ConcMaxItems, b \in {Null} \cup 1..ConcMaxItems}

\* requests being served
Active == {t \in Threads : conn[t].pc # 0}

NextConc ==
    \/ Upload("u1", "tee.jpg", ConcMaxItems)
    \/ \E t \in Threads, s \in {"u1", NoUser}, ids \in ConcOutfits :
          /\ Len(outfit_history) + Cardinality(Active) < ConcMaxWorn
          /\ BeginMark(t, s, ids)
    \/ \E t \in Threads : MarkStep(t)
    \/ \E t \in Threads : MarkCommit(t)
    \/ \E t \in Threads : MarkFail(t)
    \/ \E fails \in BOOLEAN : UpdateItem("u1", "tee.jpg", "Winter", "Formal", fails)
    \/ DeleteItem("u1", "tee.jpg")
    \/ GenerateOutfit("u1", "", "")
    \/ OutfitHistory("u1", Null)

SpecConc == Init /\ [][NextConc]_vars

\* C7: each of the concurrent calls that succeeds leaves the wear_count of
\* every item of the caller it names exactly 1 above the committed count it
\* found, so k such calls end k above the start.
C7_OnePerConcurrentCall ==
    [][\A t \in Threads :
          MarkCommit(t) =>
              \A i \in DOMAIN clothes :
                  (Names(conn[t].ids, i) /\ clothes[i].user_id = conn[t].user) =>
                      /\ i \in DOMAIN clothes'
                      /\ clothes'[i].wear_count = clothes[i].wear_count + 1]_vars

\* the number of slots of the request that hold id i
Slots(ids, i) == Cardinality({k \in 1..3 : ids[k] = i})

\* No UPDATE of a committed call is lost: the commit raises the committed
\* count of an item of the caller by the number of slots that name it.
NoLostUpdate ==
    [][\A t \in Threads :
          MarkCommit(t) =>
              /\ DOMAIN clothes' = DOMAIN clothes
              /\ \A i \in DOMAIN clothes :
                    clothes'[i].wear_count = clothes[i].wear_count
                        + (IF clothes[i].user_id = conn[t].user
                           THEN Slots(conn[t].ids, i) ELSE 0)]_vars

\* C8: the history only grows, by one record at a time and only when a
\* mark_outfit_worn call commits; the record is the caller's and holds that
\* call's three ids; the records already there stay as they are.
C8_AppendOnly ==
    [][/\ Len(outfit_history') \in {Len(outfit_history), Len(outfit_history) + 1}
       /\ SubSeq(outfit_history', 1, Len(outfit_history)) = outfit_history
       /\ Len(outfit_history') = Len(outfit_history) + 1 =>
             /\ response'.op = "mark_outfit_worn" /\ response'.ok
             /\ \E t \in Threads : MarkCommit(t)
       /\ \A t \in Threads :
             MarkCommit(t) =>
                 /\ Len(outfit_history') = Len(outfit_history) + 1
                 /\ LET h == outfit_history'[Len(outfit_history')]
                    IN  /\ h.user_id = conn[t].user
                        /\ <<h.top_id, h.bottom_id, h.shoe_id>> = conn[t].ids]_vars

\* two calls of the same owner with the same ids, the second begun before
\* the first committed, left two records; the item they name was deleted since
C8_Witness ==
    /\ Len(outfit_history) = 2
    /\ outfit_history[1].user_id = outfit_history[2].user_id
    /\ outfit_history[1].top_id = outfit_history[2].top_id
    /\ outfit_history[1].bottom_id = outfit_history[2].bottom_id
    /\ outfit_history[1].top_id \in 1..clothes_seq
    /\ outfit_history[1].top_id \notin DOMAIN clothes
    /\ response.op = "delete_item" /\ response.ok

(***************************************************************************)
(* SpecHist: a long history. mark_outfit_worn calls of two owners, each in  *)
(* a second of its own, and the history page read with and without a       *)
(* limit argument in the request.                                          *)
(***************************************************************************)
\* the records written in the current second
ThisSecond == {k \in 1..Len(outfit_history) : outfit_history[k].date_worn = now}

\* how many calls of an owner the model follows
HistCalls(s) == IF s = "u1" THEN HistMaxWorn ELSE HistMaxOther

NextHist ==
    \/ \E s \in Users :
          /\ Cardinality(SelectHistory(outfit_history, s)) < HistCalls(s)
          /\ ThisSecond = {}
          /\ MarkOutfitWorn(s, <<1, Null, Null>>, 0)
    \/ /\ ThisSecond # {}
       /\ Tick(HistMaxWorn + HistMaxOther)
    \/ \E s \in Sessions, limit \in {Null, 2} : OutfitHistory(s, limit)

SpecHist == Init /\ [][NextHist]_vars

\* the owner's records in the order they were created
RecordsOf(owner) == SelectSeq(outfit_history, LAMBDA h : h.user_id = owner)

\* the records of the owner were created at pairwise different times
DistinctTimes(owner) ==
    \A a, b \in 1..Len(RecordsOf(owner)) :
        a # b => RecordsOf(owner)[a].date_worn # RecordsOf(owner)[b].date_worn

\* the n most recently created records of the owner, latest first
MostRecent(owner, n) ==
    [k \in 1..n |-> RecordsOf(owner)[Len(RecordsOf(owner)) - k + 1]]

SameRecord(row, h) ==
    /\ row.id = h.id /\ row.user_id = h.user_id /\ row.date_worn = h.date_worn
    /\ row.top_id = h.top_id /\ row.bottom_id = h.bottom_id /\ row.shoe_id = h.shoe_id

Min(a, b) == IF a < b THEN a ELSE b

\* the rows of the response are the n latest records of the owner, latest first
ReturnsMostRecent(n) ==
    /\ Len(response.rows) = n
    /\ \A k \in 1..n : SameRecord(response.rows[k], MostRecent(response.user, n)[k])

DangImages == {"tee.jpg", "jeans.jpg"}

DangOutfits == {<<t, b, Null>> : t \in 1..DangMaxItems, b \in {Null} \cup 1..DangMaxItems}

NextDangle ==
    \/ \E img \in DangImages : Upload("u1", img, DangMaxItems)
    \/ \E ids \in DangOutfits :
          /\ Len(outfit_history) < DangMaxWorn
          /\ MarkOutfitWorn("u1", ids, 0)
    \/ \E f \in DangImages : UpdateItem("u1", f, "Winter", "Formal", FALSE)
    \/ \E f \in DangImages : DeleteItem("u1", f)
    \/ OutfitHistory("u1", Null)

SpecDangle == Init /\ [][NextDangle]_vars

\* the path a history row shows for a stored id: the path the item has now,
\* nothing when no item has the id
ShownPath(cl, item_id) == IF item_id \in DOMAIN cl THEN cl[item_id].file_path ELSE NoPath

\* C13: a delete_item step leaves the history as it was; the history page
\* read afterwards answers without error with a row for every record of the
\* owner (up to the page limit), each with the three ids as stored, no path
\* for a slot whose item is gone and the current path for a slot whose item
\* is in the table.
C13_DanglingTolerated ==
    [][/\ response'.op = "delete_item" => outfit_history' = outfit_history
       /\ (response'.op = "outfit_history" /\ response'.user \in Users) =>
             /\ response'.ok /\ response'.status = 200
             /\ Len(response'.rows) = Min(HistoryLimit, Len(RecordsOf(response'.user)))
             /\ \A k \in 1..Len(response'.rows) :
                   LET row == response'.rows[k]
                   IN  /\ \E n \in 1..Len(outfit_history) : SameRecord(row, outfit_history[n])
                       /\ row.top_path = ShownPath(clothes, row.top_id)
                       /\ row.bottom_path = ShownPath(clothes, row.bottom_id)
                       /\ row.shoe_path = ShownPath(clothes, row.shoe_id)]_vars

\* the page read after the top of a recorded outfit was deleted: the row has
\* no top path and the path of the bottom, which is still in the table
C13_Witness ==
    /\ response.op = "outfit_history" /\ response.ok
    /\ Len(response.rows) > 0
    /\ LET row == response.rows[1]
       IN  /\ row.top_id \in 1..clothes_seq
           /\ row.top_id \notin DOMAIN clothes
           /\ row.top_path = NoPath
           /\ row.bottom_id \in DOMAIN clothes
           /\ row.bottom_path = clothes[row.bottom_id].file_path

(***************************************************************************)
(* SpecSlot: mark_outfit_worn on items that were never recommended. Two    *)
(* owners upload bottoms and winter tops; then u1 sends any id, null or 0   *)
(* in any slot, and may send the same body again.                          *)
(***************************************************************************)
SlotImages == {"jeans.jpg", "coat.jpg"}

SlotInputs == {Null, 0} \cup 1..SlotMaxItems

SlotIds == SlotInputs \X SlotInputs \X SlotInputs

SlotFirst ==
    \E ids \in SlotIds :
        /\ outfit_history = <<>>
        /\ MarkOutfitWorn("u1", ids, 0)

SlotAgain ==
    /\ outfit_history # <<>>
    /\ Len(outfit_history) < SlotMaxWorn
    /\ LET h == outfit_history[Len(outfit_history)]
       IN  MarkOutfitWorn(h.user_id, <<h.top_id, h.bottom_id, h.shoe_id>>, 0)

NextSlot ==
    \/ \E s \in Users, img \in SlotImages :
          /\ outfit_history = <<>>
          /\ Upload(s, img, SlotMaxItems)
    \/ SlotFirst
    \/ SlotAgain

SpecSlot == Init /\ [][NextSlot]_vars

\* C16: a mark_outfit_worn call of u1 succeeds and raises the wear_count of
\* exactly the items that u1 owns and the body names in some slot, whatever
\* their category, season and occasion and with no recommendation made; the
\* record holds each id in the slot it was sent in.
C16_AnySlotAnyCategory ==
    [][\A ids \in SlotIds :
          MarkOutfitWorn("u1", ids, 0) =>
              /\ response'.ok
              /\ DOMAIN clothes' = DOMAIN clothes
              /\ \A i \in DOMAIN clothes :
                    (clothes'[i].wear_count > clothes[i].wear_count)
                        <=> (Names(ids, i) /\ clothes[i].user_id = "u1")
              /\ Len(outfit_history') = Len(outfit_history) + 1
              /\ LET h == outfit_history'[Len(outfit_history')]
                 IN  <<h.top_id, h.bottom_id, h.shoe_id>> = ids]_vars

\* a bottom of u1 sent as top_id, a winter top of u1 sent as shoe_id and 0 as
\* bottom_id: both items were counted and the record holds the ids as sent
C16_Witness ==
    /\ response.op = "mark_outfit_worn" /\ response.ok /\ response.user = "u1"
    /\ outfit_history # <<>>
    /\ LET h == outfit_history[Len(outfit_history)]
       IN  /\ h.bottom_id = 0
           /\ h.top_id \in DOMAIN clothes /\ h.shoe_id \in DOMAIN clothes
           /\ clothes[h.top_id].subtype = "bottom" /\ clothes[h.top_id].user_id = "u1"
           /\ clothes[h.top_id].wear_count = 1
           /\ clothes[h.shoe_id].subtype = "top" /\ clothes[h.shoe_id].season = "Winter"
           /\ clothes[h.shoe_id].user_id = "u1" /\ clothes[h.shoe_id].wear_count = 1

====
